---- MODULE Spec2Model ----
(***************************************************************************)
(* Model of generate.py, the TRELLIS.2 image-to-3D batch job.              *)
(*                                                                         *)
(* One process run is a strictly sequential walk through main() followed   *)
(* by the top-level guarded region, the finally block and sys.exit(0).     *)
(* The external collaborators (torch, requests, PIL, huggingface_hub, the  *)
(* TRELLIS pipeline, o_voxel, the GLB writer) are black boxes: each call   *)
(* either returns or raises an Exception, chosen nondeterministically.     *)
(* The filesystem (model cache marker, output.glb) survives from one run   *)
(* to the next; everything else is per-process state.                      *)
(***************************************************************************)
EXTENDS Integers, Sequences, FiniteSets, TLC

\* ---------------------------------------------------------------- bounds
MaxRuns == 2        \* consecutive process runs on the same filesystem
MaxGlbSize == 2     \* abstract byte sizes of output.glb: 0..MaxGlbSize
MaxMeshes == 2      \* candidate meshes pipeline.run may return: 0..MaxMeshes

\* ------------------------------------------------------------- constants
\* exit status requested by sys.exit(0)
ExitRequested == 0
\* exit status CPython substitutes when flushing sys.stdout / sys.stderr
\* fails during interpreter finalization
ExitFlushFailed == 120

\* values of os.environ.get('IMAGE_URL'): unset (None), empty, a locator
ImageUrls == {"None", "", "http://img"}

\* the external stage operations whose invocations are counted
Ops == {"get", "download", "from_pretrained", "run", "simplify", "to_glb", "export"}

VARIABLES
    run,            \* number of the current process run
    pc,             \* position of the single thread of control
    imageUrl,       \* IMAGE_URL of the current run
    probe,          \* outcome of the dependency probe: none/ok/nocuda/raise
    envSet,         \* both os.environ toggles have been assigned by this run
    calls,          \* per-run invocation count of each external operation
    meshes,         \* len(meshes) returned by pipeline.run, -1 before it returns
    picked,         \* 1-based position in meshes of the candidate bound to mesh, 0 if none
    mesh,           \* the mesh object: none / generated / simplified
    exportMesh,     \* the mesh state handed to o_voxel.postprocess.to_glb
    simplifyRaised, \* mesh.simplify raised in this run
    result,         \* none / True / False (main returned) / exc (escaped)
    log,            \* lines of <artifact_dir>/run.log
    console,        \* lines written to the original stdout/stderr
    logOpen,        \* log_file is open
    closes,         \* log_file.close() calls executed in this run
    closedOps,      \* writes/flushes attempted on the closed log_file
    exitCode,       \* process exit status, -1 while running
    glbWrites,      \* times output.glb was opened for writing in this run
    marker,         \* /app/models/TRELLIS.2-4B/config.json exists
    repoHasConfig,  \* the registry snapshot contains a top-level config.json
    glb,            \* <artifact_dir>/output.glb
    dl,             \* per run: snapshot_download none / ok / failed
    markerSeen      \* per run: os.path.exists(config_path) result

procVars == <<imageUrl, probe, envSet, calls, meshes, picked, mesh, exportMesh, simplifyRaised, result>>
ioVars   == <<log, console, logOpen, closes, closedOps, exitCode>>
fsVars   == <<glbWrites, marker, repoHasConfig, glb, dl, markerSeen>>
vars     == <<run, pc, procVars, ioVars, fsVars>>

NoGlb == [exists |-> FALSE, size |-> 0, run |-> 0, complete |-> FALSE]

\* ------------------------------------------------------------ log lines
BannerLines == <<"====", "TRELLIS.2 Image-to-3D Generator for Sakura DOK", "====", "">>
ErrorLines == {"ERROR: IMAGE_URL environment variable not set",
               "ERROR: CUDA not available",
               "ERROR: Failed to import dependencies",
               "ERROR: Failed to download image",
               "ERROR: Failed to load image",
               "ERROR: Failed to load model",
               "ERROR: No mesh generated (empty output)",
               "ERROR: Generation failed",
               "ERROR: Export failed"}
FatalLine   == "FATAL ERROR"
WarningLine == "WARNING: Simplification failed"
SuccessLine == "SUCCESS - 3D asset generated"
Traceback   == "Traceback (most recent call last)"

Range(s) == {s[i] : i \in 1..Len(s)}
Count(s, x) == Cardinality({i \in 1..Len(s) : s[i] = x})
HasError(s) == Range(s) \cap ErrorLines # {}
HasFatal(s) == FatalLine \in Range(s)
HasSuccess(s) == SuccessLine \in Range(s)

\* ------------------------------------------------------------------ Tee
\* variant: the loop over self.files stops after the first file
TeeWriteFirstOnly(lines) ==
    /\ console' = console \o lines
    /\ log' = log
    /\ closedOps' = closedOps

\* Tee.write(obj): for f in (console, log_file): f.write(obj); f.flush().
\* The console is written first; a closed log_file then raises ValueError.
TeeWrite(lines) ==
    /\ console' = console \o lines
    /\ IF logOpen
         THEN log' = log \o lines /\ closedOps' = closedOps
         ELSE log' = log /\ closedOps' = closedOps + 1

\* print(...) inside main() and the guarded region: the log is open there
Emit(lines) ==
    /\ TeeWrite(lines)
    /\ UNCHANGED <<logOpen, closes, exitCode>>

\* "return False" after printing the lines of a stage failure
Halt(lines) ==
    /\ Emit(lines)
    /\ result' = "False"
    /\ pc' = "top"

\* an exception leaves main() and reaches the top-level try
Escape ==
    /\ result' = "exc"
    /\ pc' = "top"
    /\ UNCHANGED ioVars

Bump(op) == calls' = [calls EXCEPT ![op] = @ + 1]

\* ----------------------------------------------------------------- Init
\* State after the module-level code: artifact_dir exists, run.log has been
\* opened with mode 'w' (empty), stdout and stderr are Tee objects.
Init ==
    /\ run = 1
    /\ pc = "validate"
    /\ imageUrl \in ImageUrls
    /\ probe = "none"
    /\ envSet = FALSE
    /\ calls = [o \in Ops |-> 0]
    /\ meshes = -1
    /\ picked = 0
    /\ mesh = "none"
    /\ exportMesh = "none"
    /\ simplifyRaised = FALSE
    /\ result = "none"
    /\ log = <<>>
    /\ console = <<>>
    /\ logOpen = TRUE
    /\ closes = 0
    /\ closedOps = 0
    /\ exitCode = -1
    /\ glbWrites = 0
    /\ marker \in BOOLEAN
    /\ repoHasConfig \in BOOLEAN
    /\ glb \in {NoGlb, [exists |-> TRUE, size |-> 1, run |-> 0, complete |-> TRUE]}
    /\ dl = [r \in 1..MaxRuns |-> "none"]
    /\ markerSeen = [r \in 1..MaxRuns |-> "unchecked"]

\* ------------------------------------------------- stage 1: validation
\* "if not image_url": None and the empty string are both falsy
Truthy(u) == u # "None" /\ u # ""

\* variant: the ERROR line is printed but "return False" is missing
ValidateMissingNoReturn ==
    /\ ~Truthy(imageUrl)
    /\ Emit(BannerLines \o <<"Checking environment...",
                             "ERROR: IMAGE_URL environment variable not set">>)
    /\ pc' = "probe"
    /\ UNCHANGED <<run, procVars, fsVars>>

ValidateMissing ==
    /\ ~Truthy(imageUrl)
    /\ Halt(BannerLines \o <<"Checking environment...",
                             "ERROR: IMAGE_URL environment variable not set">>)
    /\ UNCHANGED <<run, imageUrl, probe, envSet, calls, meshes, picked, mesh, exportMesh, simplifyRaised, fsVars>>

ValidateOk ==
    /\ Truthy(imageUrl)
    /\ Emit(BannerLines \o <<"Checking environment...", "IMAGE_URL: ...", "">>)
    /\ pc' = "probe"
    /\ UNCHANGED <<run, procVars, fsVars>>

Validate ==
    /\ pc = "validate"
    /\ (ValidateMissing \/ ValidateOk)

\* ---------------------------------------- stage 2: dependency probing
\* import requests / PIL / torch or a device query raises: caught at line 57
ProbeRaise ==
    /\ probe' = "raise"
    /\ Halt(<<"Importing dependencies...", "ERROR: Failed to import dependencies", Traceback>>)
    /\ UNCHANGED <<run, imageUrl, envSet, calls, meshes, picked, mesh, exportMesh, simplifyRaised, fsVars>>

\* variant: the else branch prints the ERROR line but does not return
ProbeNoCudaNoReturn ==
    /\ probe' = "nocuda"
    /\ Emit(<<"Importing dependencies...", "PyTorch version", "CUDA available: False",
              "ERROR: CUDA not available", "">>)
    /\ pc' = "setup"
    /\ UNCHANGED <<run, imageUrl, envSet, calls, meshes, picked, mesh, exportMesh, simplifyRaised, result, fsVars>>

\* torch.cuda.is_available() is False: the else branch at line 54
ProbeNoCuda ==
    /\ probe' = "nocuda"
    /\ Halt(<<"Importing dependencies...", "PyTorch version", "CUDA available: False",
              "ERROR: CUDA not available">>)
    /\ UNCHANGED <<run, imageUrl, envSet, calls, meshes, picked, mesh, exportMesh, simplifyRaised, fsVars>>

ProbeOk ==
    /\ probe' = "ok"
    /\ Emit(<<"Importing dependencies...", "PyTorch version", "CUDA available: True",
              "CUDA version", "GPU", "GPU memory", "">>)
    /\ pc' = "setup"
    /\ UNCHANGED <<run, imageUrl, envSet, calls, meshes, picked, mesh, exportMesh, simplifyRaised, result, fsVars>>

Probe ==
    /\ pc = "probe"
    /\ (ProbeRaise \/ ProbeNoCuda \/ ProbeOk)

\* variant: the two os.environ assignments are missing
SetupEnvSkipped ==
    /\ pc = "setup"
    /\ envSet' = envSet
    /\ Emit(<<"Setting up environment...", "Environment configured", "">>)
    /\ pc' = "fetch"
    /\ UNCHANGED <<run, imageUrl, probe, calls, meshes, picked, mesh, exportMesh, simplifyRaised, result, fsVars>>

\* os.environ['OPENCV_IO_ENABLE_OPENEXR'] and ["PYTORCH_CUDA_ALLOC_CONF"]
SetupEnv ==
    /\ pc = "setup"
    /\ envSet' = TRUE
    /\ Emit(<<"Setting up environment...", "Environment configured", "">>)
    /\ pc' = "fetch"
    /\ UNCHANGED <<run, imageUrl, probe, calls, meshes, picked, mesh, exportMesh, simplifyRaised, result, fsVars>>

\* ------------------------------------------------ stage 3: asset fetch
\* variant: the handler loops back to the GET instead of returning
FetchRaiseRetry ==
    /\ Emit(<<"Downloading input image...", "ERROR: Failed to download image", Traceback>>)
    /\ pc' = "fetch"
    /\ UNCHANGED <<run, imageUrl, probe, envSet, meshes, picked, mesh, exportMesh, simplifyRaised,
                   result, fsVars>>

\* requests.get or raise_for_status raises: caught at line 76
FetchRaise ==
    /\ Halt(<<"Downloading input image...", "ERROR: Failed to download image", Traceback>>)
    /\ UNCHANGED <<run, imageUrl, probe, envSet, meshes, picked, mesh, exportMesh, simplifyRaised, fsVars>>

FetchOk ==
    /\ Emit(<<"Downloading input image...">>)
    /\ pc' = "persist"
    /\ UNCHANGED <<run, imageUrl, probe, envSet, meshes, picked, mesh, exportMesh, simplifyRaised, result, fsVars>>

Fetch ==
    /\ pc = "fetch"
    /\ Bump("get")
    /\ (FetchRaise \/ FetchOk)

\* open('/tmp/input.png', 'wb') / f.write raise: lines 81-84 are in no try,
\* so the exception leaves main()
PersistRaise ==
    /\ Escape
    /\ UNCHANGED <<run, imageUrl, probe, envSet, calls, meshes, picked, mesh, exportMesh, simplifyRaised, fsVars>>

PersistOk ==
    /\ Emit(<<"Downloaded: n bytes">>)
    /\ pc' = "decode"
    /\ UNCHANGED <<run, procVars, fsVars>>

Persist ==
    /\ pc = "persist"
    /\ (PersistRaise \/ PersistOk)

\* Image.open(...).convert('RGBA') raises: caught at line 90
DecodeRaise ==
    /\ Halt(<<"ERROR: Failed to load image", Traceback>>)
    /\ UNCHANGED <<run, imageUrl, probe, envSet, calls, meshes, picked, mesh, exportMesh, simplifyRaised, fsVars>>

DecodeOk ==
    /\ Emit(<<"Image size", "">>)
    /\ pc' = "import_model"
    /\ UNCHANGED <<run, procVars, fsVars>>

Decode ==
    /\ pc = "decode"
    /\ (DecodeRaise \/ DecodeOk)

\* ------------------------------------- stage 4: model provisioning/load
\* every failure between lines 98 and 136 is caught at line 137
LoadFailed(printed) == Halt(printed \o <<"ERROR: Failed to load model", Traceback>>)

ImportModelRaise ==
    /\ LoadFailed(<<"Loading TRELLIS.2 model...">>)
    /\ UNCHANGED <<run, imageUrl, probe, envSet, calls, meshes, picked, mesh, exportMesh, simplifyRaised, fsVars>>

ImportModelOk ==
    /\ Emit(<<"Loading TRELLIS.2 model...", "Imports successful">>)
    /\ pc' = "provision"
    /\ UNCHANGED <<run, procVars, fsVars>>

\* from trellis2.pipelines import ...; import o_voxel
ImportModel ==
    /\ pc = "import_model"
    /\ (ImportModelRaise \/ ImportModelOk)

\* os.path.exists(config_path) is True: the else branch at line 120
ProvisionCached ==
    /\ marker
    /\ markerSeen' = [markerSeen EXCEPT ![run] = "present"]
    /\ Emit(<<"Using cached model">>)
    /\ pc' = "load"
    /\ UNCHANGED <<run, procVars, glbWrites, marker, repoHasConfig, glb, dl>>

\* snapshot_download returns: the local directory holds the whole snapshot,
\* config.json included only if the registry entry has one
DownloadOk ==
    /\ ~marker
    /\ markerSeen' = [markerSeen EXCEPT ![run] = "absent"]
    /\ Bump("download")
    /\ dl' = [dl EXCEPT ![run] = "ok"]
    /\ marker' = repoHasConfig
    /\ Emit(<<"Model not cached, downloading from HuggingFace...", "Model downloaded">>)
    /\ pc' = "load"
    /\ UNCHANGED <<run, imageUrl, probe, envSet, meshes, picked, mesh, exportMesh, simplifyRaised, result,
                   glbWrites, repoHasConfig, glb>>

\* snapshot_download raises part-way: config.json may or may not have
\* arrived before the failure
DownloadRaise ==
    /\ ~marker
    /\ markerSeen' = [markerSeen EXCEPT ![run] = "absent"]
    /\ Bump("download")
    /\ dl' = [dl EXCEPT ![run] = "failed"]
    /\ marker' \in {FALSE, repoHasConfig}
    /\ LoadFailed(<<"Model not cached, downloading from HuggingFace...">>)
    /\ UNCHANGED <<run, imageUrl, probe, envSet, meshes, picked, mesh, exportMesh, simplifyRaised,
                   glbWrites, repoHasConfig, glb>>

Provision ==
    /\ pc = "provision"
    /\ (ProvisionCached \/ DownloadOk \/ DownloadRaise)

\* from_pretrained, pipeline.cuda() or the memory queries raise
LoadRaise ==
    /\ LoadFailed(<<"Loading pipeline...">>)
    /\ UNCHANGED <<run, imageUrl, probe, envSet, meshes, picked, mesh, exportMesh, simplifyRaised, fsVars>>

LoadOk ==
    /\ Emit(<<"Loading pipeline...", "Pipeline loaded", "Moving to CUDA...", "Pipeline on GPU",
              "GPU memory allocated", "GPU memory reserved", "">>)
    /\ pc' = "generate"
    /\ UNCHANGED <<run, imageUrl, probe, envSet, meshes, picked, mesh, exportMesh, simplifyRaised, result, fsVars>>

Load ==
    /\ pc = "load"
    /\ Bump("from_pretrained")
    /\ (LoadRaise \/ LoadOk)

\* -------------------------------------------------- stage 5: inference
GenerateLines == <<"Generating 3D asset...", "This may take 10-60 seconds depending on resolution...">>

\* variant: the handler removes the artifact of an earlier run
GenerateRaiseCleans ==
    /\ glb' = NoGlb
    /\ Halt(GenerateLines \o <<"ERROR: Generation failed", Traceback>>)
    /\ UNCHANGED <<run, imageUrl, probe, envSet, meshes, picked, mesh, exportMesh, simplifyRaised,
                   glbWrites, marker, repoHasConfig, dl, markerSeen>>

\* pipeline.run raises: caught at line 156
GenerateRaise ==
    /\ Halt(GenerateLines \o <<"ERROR: Generation failed", Traceback>>)
    /\ UNCHANGED <<run, imageUrl, probe, envSet, meshes, picked, mesh, exportMesh, simplifyRaised, fsVars>>

\* variant: an empty result returns False without an ERROR line
GenerateEmptySilent ==
    /\ meshes' = 0
    /\ Halt(GenerateLines)
    /\ UNCHANGED <<run, imageUrl, probe, envSet, picked, mesh, exportMesh, simplifyRaised, fsVars>>

\* "if not meshes or len(meshes) == 0"
GenerateEmpty ==
    /\ meshes' = 0
    /\ Halt(GenerateLines \o <<"ERROR: No mesh generated (empty output)">>)
    /\ UNCHANGED <<run, imageUrl, probe, envSet, picked, mesh, exportMesh, simplifyRaised, fsVars>>

\* variant: meshes[-1]
LastOf(n) == n

\* meshes[0]: the first candidate, position 1 counting from one
FirstOf(n) == 1

\* mesh = meshes[0] for a non-empty result
GenerateOk ==
    /\ \E n \in 1..MaxMeshes :
          /\ meshes' = n
          /\ picked' = FirstOf(n)
    /\ mesh' = "generated"
    /\ Emit(GenerateLines \o <<"Generated: v vertices, f faces", "">>)
    /\ pc' = "simplify"
    /\ UNCHANGED <<run, imageUrl, probe, envSet, exportMesh, simplifyRaised, result, fsVars>>

Generate ==
    /\ pc = "generate"
    /\ Bump("run")
    /\ (GenerateRaise \/ GenerateEmpty \/ GenerateOk)

\* variant: a simplification failure halts the run like any other stage
SimplifyRaiseHalts ==
    /\ simplifyRaised' = TRUE
    /\ mesh' = mesh
    /\ Halt(<<"Simplifying mesh...", WarningLine>>)
    /\ UNCHANGED <<run, imageUrl, probe, envSet, meshes, picked, exportMesh, fsVars>>

\* mesh.simplify raises: "except Exception" at line 167 prints the warning
\* and falls through; mesh is not rebound
SimplifyRaise ==
    /\ simplifyRaised' = TRUE
    /\ mesh' = mesh
    /\ Emit(<<"Simplifying mesh...", WarningLine, "">>)
    /\ pc' = "to_glb"
    /\ UNCHANGED <<run, imageUrl, probe, envSet, meshes, picked, exportMesh, result, fsVars>>

\* mesh.simplify returns: the mesh has been reduced in place
SimplifyOk ==
    /\ mesh' = "simplified"
    /\ Emit(<<"Simplifying mesh...", "Simplified: v vertices, f faces", "">>)
    /\ pc' = "to_glb"
    /\ UNCHANGED <<run, imageUrl, probe, envSet, meshes, picked, exportMesh, simplifyRaised, result, fsVars>>

Simplify ==
    /\ pc = "simplify"
    /\ Bump("simplify")
    /\ (SimplifyRaise \/ SimplifyOk)

\* ----------------------------------------------------- stage 6: export
\* every failure between lines 175 and 195 is caught at line 196
ExportFailed(printed) == Halt(printed \o <<"ERROR: Export failed", Traceback>>)

\* o_voxel.postprocess.to_glb(vertices = mesh.vertices, ...) raises
ToGlbRaise ==
    /\ ExportFailed(<<"Exporting to GLB...">>)
    /\ UNCHANGED <<run, imageUrl, probe, envSet, meshes, picked, mesh, simplifyRaised, fsVars>>

ToGlbOk ==
    /\ Emit(<<"Exporting to GLB...">>)
    /\ pc' = "export"
    /\ UNCHANGED <<run, imageUrl, probe, envSet, meshes, picked, mesh, simplifyRaised, result, fsVars>>

ToGlb ==
    /\ pc = "to_glb"
    /\ Bump("to_glb")
    /\ exportMesh' = mesh
    /\ (ToGlbRaise \/ ToGlbOk)

\* what a glb.export(glb_path) that raises leaves at glb_path: the file
\* untouched, a truncated file, or the whole file (a failure after the
\* write, e.g. in os.path.getsize)
ExportLeavings ==
    {[touched |-> FALSE, size |-> 0, complete |-> FALSE]}
    \cup {[touched |-> TRUE, size |-> n, complete |-> FALSE] : n \in 0..(MaxGlbSize - 1)}
    \cup {[touched |-> TRUE, size |-> n, complete |-> TRUE] : n \in 1..MaxGlbSize}

\* variant: the export handler prints the ERROR line but does not return
ExportRaiseNoReturn ==
    /\ \E w \in ExportLeavings :
          IF w.touched
            THEN /\ glb' = [exists |-> TRUE, size |-> w.size, run |-> run, complete |-> w.complete]
                 /\ glbWrites' = glbWrites + 1
            ELSE UNCHANGED <<glb, glbWrites>>
    /\ Emit(<<"ERROR: Export failed", Traceback, "">>)
    /\ pc' = "banner"
    /\ UNCHANGED <<run, imageUrl, probe, envSet, meshes, picked, mesh, exportMesh, simplifyRaised, result,
                   marker, repoHasConfig, dl, markerSeen>>

ExportRaise ==
    /\ \E w \in ExportLeavings :
          IF w.touched
            THEN /\ glb' = [exists |-> TRUE, size |-> w.size, run |-> run, complete |-> w.complete]
                 /\ glbWrites' = glbWrites + 1
            ELSE UNCHANGED <<glb, glbWrites>>
    /\ ExportFailed(<<>>)
    /\ UNCHANGED <<run, imageUrl, probe, envSet, meshes, picked, mesh, exportMesh, simplifyRaised,
                   marker, repoHasConfig, dl, markerSeen>>

\* glb.export writes a complete GLB container (never empty: it starts with
\* a fixed header), os.path.getsize reads its size
ExportOk ==
    /\ \E n \in 1..MaxGlbSize :
          glb' = [exists |-> TRUE, size |-> n, run |-> run, complete |-> TRUE]
    /\ glbWrites' = glbWrites + 1
    /\ Emit(<<"Exported: output.glb", "">>)
    /\ pc' = "banner"
    /\ UNCHANGED <<run, imageUrl, probe, envSet, meshes, picked, mesh, exportMesh, simplifyRaised, result,
                   marker, repoHasConfig, dl, markerSeen>>

Export ==
    /\ pc = "export"
    /\ Bump("export")
    /\ (ExportRaise \/ ExportOk)

\* lines 202-205: the banner, then "return True"
Success ==
    /\ pc = "banner"
    /\ Emit(<<"====", SuccessLine, "====">>)
    /\ result' = "True"
    /\ pc' = "top"
    /\ UNCHANGED <<run, imageUrl, probe, envSet, calls, meshes, picked, mesh, exportMesh, simplifyRaised, fsVars>>

\* ------------------------------------------- top-level guarded region
\* variant: the success test is inverted
OutcomeLinesInverted(r) ==
    CASE r = "True"  -> <<"Task completed with errors (exit 0)">>
      [] r = "False" -> <<"Task completed successfully (exit 0)">>
      [] r = "exc"   -> <<FatalLine, Traceback, "Task completed with exception (exit 0)">>

OutcomeLines(r) ==
    CASE r = "True"  -> <<"Task completed successfully (exit 0)">>
      [] r = "False" -> <<"Task completed with errors (exit 0)">>
      [] r = "exc"   -> <<FatalLine, Traceback, "Task completed with exception (exit 0)">>

\* lines 208-217
TopLevel ==
    /\ pc = "top"
    /\ Emit(OutcomeLines(result))
    /\ pc' = "finally"
    /\ UNCHANGED <<run, procVars, fsVars>>

\* variant: the close sits at the end of the try body, not in a finally
FinallyOnlyOnReturn ==
    /\ pc = "finally"
    /\ logOpen' = (result = "exc")
    /\ closes' = IF result = "exc" THEN closes ELSE closes + 1
    /\ pc' = "exit"
    /\ UNCHANGED <<run, procVars, fsVars, log, console, closedOps, exitCode>>

\* lines 218-219: log_file.close(); sys.stdout / sys.stderr stay the Tees
Finally ==
    /\ pc = "finally"
    /\ logOpen' = FALSE
    /\ closes' = closes + 1
    /\ pc' = "exit"
    /\ UNCHANGED <<run, procVars, fsVars, log, console, closedOps, exitCode>>

\* Tee.flush(): for f in files: f.flush(); raises ValueError on a closed file
TeeFlushRaises == ~logOpen

\* exit status of the interpreter after sys.exit(0): finalization flushes
\* sys.stdout and sys.stderr, and a flush that raises turns the status
\* into 120
ExitStatus == IF TeeFlushRaises THEN ExitFlushFailed ELSE ExitRequested

\* line 222 and interpreter finalization
Exit ==
    /\ pc = "exit"
    /\ exitCode' = ExitStatus
    /\ IF TeeFlushRaises
         THEN /\ closedOps' = closedOps + 2
              /\ console' = console \o <<"Exception ignored in">>
         ELSE UNCHANGED <<closedOps, console>>
    /\ pc' = "terminated"
    /\ UNCHANGED <<run, procVars, fsVars, log, logOpen, closes>>

\* the next process run on the same filesystem: lines 8-25 run again,
\* open(log_path, 'w') truncates run.log
NewRun ==
    /\ pc = "terminated"
    /\ run < MaxRuns
    /\ run' = run + 1
    /\ pc' = "validate"
    /\ imageUrl' \in ImageUrls
    /\ probe' = "none"
    /\ envSet' = FALSE
    /\ calls' = [o \in Ops |-> 0]
    /\ meshes' = -1
    /\ picked' = 0
    /\ mesh' = "none"
    /\ exportMesh' = "none"
    /\ simplifyRaised' = FALSE
    /\ result' = "none"
    /\ log' = <<>>
    /\ console' = <<>>
    /\ logOpen' = TRUE
    /\ closes' = 0
    /\ closedOps' = 0
    /\ exitCode' = -1
    /\ glbWrites' = 0
    /\ UNCHANGED <<marker, repoHasConfig, glb, dl, markerSeen>>

Next ==
    \/ Validate \/ Probe \/ SetupEnv \/ Fetch \/ Persist \/ Decode
    \/ ImportModel \/ Provision \/ Load \/ Generate \/ Simplify
    \/ ToGlb \/ Export \/ Success \/ TopLevel \/ Finally \/ Exit \/ NewRun

Spec == Init /\ [][Next]_vars

TypeOK ==
    /\ run \in 1..MaxRuns
    /\ pc \in {"validate", "probe", "setup", "fetch", "persist", "decode", "import_model",
               "provision", "load", "generate", "simplify", "to_glb", "export", "banner",
               "top", "finally", "exit", "terminated"}
    /\ imageUrl \in ImageUrls
    /\ probe \in {"none", "ok", "nocuda", "raise"}
    /\ envSet \in BOOLEAN
    /\ calls \in [Ops -> 0..1]
    /\ meshes \in -1..MaxMeshes
    /\ picked \in 0..MaxMeshes
    /\ closes \in 0..1
    /\ mesh \in {"none", "generated", "simplified"}
    /\ exportMesh \in {"none", "generated", "simplified"}
    /\ simplifyRaised \in BOOLEAN
    /\ result \in {"none", "True", "False", "exc"}
    /\ logOpen \in BOOLEAN
    /\ exitCode \in {-1, ExitRequested, ExitFlushFailed}
    /\ glbWrites \in 0..1
    /\ marker \in BOOLEAN
    /\ glb.size \in 0..MaxGlbSize

\* ================================================================ claims
Halted == pc \in {"top", "finally", "exit", "terminated"}

\* C1: every run (main() returned True, returned False, or an exception
\* reached the top-level handler) terminates with exit code 0, counting
\* everything that runs between log_file.close() and process termination.
C1_ExitCodeZero == pc = "terminated" => exitCode = ExitRequested

\* C2: output.glb is written only on a fully successful run: a run that
\* created or modified the file ends with main() returning True and the
\* SUCCESS banner logged, and a run that logged an ERROR or FATAL line has
\* not written the file.
C2_GlbOnlyOnSuccess ==
    /\ (glbWrites > 0 /\ Halted) => (result = "True" /\ HasSuccess(log))
    /\ (HasError(log) \/ HasFatal(log)) => glbWrites = 0

\* C3: the SUCCESS banner is logged at most once, only after the export
\* stage has written output.glb, never in a run whose log has an ERROR or
\* FATAL line; and a run that terminates without the banner has logged an
\* ERROR or FATAL line.
C3_SuccessBanner ==
    /\ Count(log, SuccessLine) <= 1
    /\ HasSuccess(log) =>
          /\ calls["export"] = 1 /\ glbWrites = 1
          /\ glb.exists /\ glb.complete /\ glb.run = run
          /\ ~HasError(log) /\ ~HasFatal(log)
    /\ (pc = "terminated" /\ ~HasSuccess(log)) => (HasError(log) \/ HasFatal(log))

C3_Witness == pc = "terminated" /\ HasSuccess(log) /\ glbWrites = 1

\* C4: every fatal failure of a stage operation is caught at its own stage
\* boundary: an ERROR line is logged and main() returns False, so no
\* exception propagates out of main().
C4_StageFailuresCaught ==
    /\ result # "exc"
    /\ result = "False" => HasError(log)

\* C5: an exception not caught by a stage guard is caught by the top-level
\* handler, which logs a FATAL line before the log file is closed, after
\* which the process terminates cleanly (status 0, nothing done on the
\* closed log).
C5_FatalThenCleanExit ==
    /\ (result = "exc" /\ pc \in {"finally", "exit", "terminated"}) => HasFatal(log)
    /\ (result = "exc" /\ pc = "terminated") => (exitCode = ExitRequested /\ closedOps = 0)

\* C6: when mesh.simplify raises after a successful generation the run does
\* not halt: the WARNING line is logged and no ERROR line, and the export
\* stage is then invoked with the mesh as generation produced it.
C6_SimplifyFailureContinues ==
    simplifyRaised =>
        /\ calls["run"] = 1 /\ mesh = "generated"
        /\ Count(log, WarningLine) = 1
        /\ pc = "to_glb" => (result = "none" /\ ~HasError(log))
        /\ pc # "to_glb" => (calls["to_glb"] = 1 /\ exportMesh = "generated")

C6_Witness == simplifyRaised /\ calls["to_glb"] = 1 /\ exportMesh = "generated"

\* C7: in a run whose IMAGE_URL is missing the pipeline halts at stage 1:
\* no image GET, no snapshot download and no later stage operation occurs.
C7_MissingUrlHaltsAtStage1 ==
    ~Truthy(imageUrl) =>
        /\ \A o \in Ops : calls[o] = 0
        /\ probe = "none" /\ ~envSet /\ glbWrites = 0 /\ dl[run] = "none"
        /\ pc \in {"validate", "top", "finally", "exit", "terminated"}
        /\ pc # "validate" => result = "False"

C7_Witness == imageUrl = "None" /\ pc = "terminated" /\ result = "False"

\* C8: in a run where the accelerator is unavailable or the numeric runtime
\* cannot be initialized the pipeline halts at stage 2: neither the image
\* GET nor the snapshot download is issued and the environment toggles are
\* not set.
C8_NoAcceleratorHaltsAtStage2 ==
    probe \in {"nocuda", "raise"} =>
        /\ calls["get"] = 0 /\ calls["download"] = 0 /\ dl[run] = "none"
        /\ ~envSet
        /\ Halted /\ result = "False"

C8_Witness == probe = "nocuda" /\ pc = "terminated"

\* C9: across two consecutive runs of the Model Provisioner on the same
\* cache directory the snapshot download is performed at most once, and
\* after a run whose download returned successfully the next run finds the
\* marker and skips the download.
C9_DownloadAtMostOnce ==
    \A r \in 1..(MaxRuns - 1) :
        /\ ~(dl[r] # "none" /\ dl[r + 1] # "none")
        /\ (dl[r] = "ok" /\ markerSeen[r + 1] # "unchecked") => markerSeen[r + 1] = "present"

\* C10: in every successful run (main() returned True, SUCCESS banner
\* logged) exactly one artifact file, output.glb, was written by the export
\* stage of that run, and its size is strictly positive.
C10_SuccessWritesOneNonEmptyGlb ==
    (result = "True" /\ HasSuccess(log)) =>
        /\ calls["export"] = 1 /\ glbWrites = 1
        /\ glb.exists /\ glb.run = run /\ glb.size > 0

C10_Witness == result = "True" /\ HasSuccess(log) /\ glb.run = run /\ glb.size = MaxGlbSize

\* ------------------------------------------------- claims C11 to C18
IsPrefix(a, b) == Len(a) <= Len(b) /\ SubSeq(b, 1, Len(a)) = a

\* position of each pc value along one run
Rank(p) ==
    CASE p = "validate" -> 1  [] p = "probe" -> 2      [] p = "setup" -> 3
      [] p = "fetch" -> 4     [] p = "persist" -> 5    [] p = "decode" -> 6
      [] p = "import_model" -> 7 [] p = "provision" -> 8 [] p = "load" -> 9
      [] p = "generate" -> 10 [] p = "simplify" -> 11  [] p = "to_glb" -> 12
      [] p = "export" -> 13   [] p = "banner" -> 14    [] p = "top" -> 15
      [] p = "finally" -> 16  [] p = "exit" -> 17      [] p = "terminated" -> 18

\* the log file is open until the finally block and closed once after it
ClosedOnce ==
    IF pc \in {"exit", "terminated"}
      THEN closes = 1 /\ ~logOpen
      ELSE closes = 0 /\ logOpen

\* C11 (as stated): run.log is created at process start, closed exactly
\* once at process end on every outcome, and no line already present in
\* run.log is ever removed or overwritten.
C11_LogAppendOnlyClosedOnce ==
    [][IsPrefix(log, log') /\ ClosedOnce /\ ClosedOnce']_vars

\* C11 (amended): run.log is open from process start, closed exactly once at
\* process end on every outcome, and within one process run no line already
\* written to it is removed or overwritten; the open at the start of the
\* next run empties it.
C11_LogAppendOnlyWithinRun ==
    [][ /\ ClosedOnce /\ ClosedOnce'
        /\ IF run' = run THEN IsPrefix(log, log') ELSE log' = <<>> ]_vars

C11_Witness == run = 2 /\ pc = "terminated" /\ closes = 1 /\ result = "exc" /\ HasFatal(log)

\* what each stage operation needs to have happened before it is invoked
StageOrder ==
    /\ \A o \in Ops : calls[o] <= 1
    /\ calls["get"] = 1 => (Truthy(imageUrl) /\ probe = "ok" /\ envSet)
    /\ calls["download"] = 1 => (calls["get"] = 1 /\ "Image size" \in Range(log))
    /\ calls["from_pretrained"] = 1 =>
          /\ calls["get"] = 1 /\ "Image size" \in Range(log)
          /\ "Using cached model" \in Range(log) \/ "Model downloaded" \in Range(log)
    /\ calls["run"] = 1 => (calls["from_pretrained"] = 1 /\ "Pipeline on GPU" \in Range(log))
    /\ calls["simplify"] = 1 => (calls["run"] = 1 /\ meshes >= 1 /\ mesh # "none")
    /\ calls["to_glb"] = 1 => calls["simplify"] = 1
    /\ calls["export"] = 1 => (calls["to_glb"] = 1 /\ exportMesh # "none")

\* C12: within one run the stages execute strictly forward and at most
\* once each: a stage operation is invoked only after every earlier stage
\* completed (simplification alone may fail without blocking its
\* successor), and no stage operation is invoked a second time.
C12_StagesForwardOnce ==
    [][ /\ StageOrder /\ StageOrder'
        /\ run' = run => Rank(pc') > Rank(pc) ]_vars

C12_Witness == \A o \in Ops : calls[o] = 1

\* C13: when pipeline.run returns an empty set of candidates the run halts
\* at the generation stage: "No mesh generated (empty output)" is logged as
\* an ERROR, neither simplification nor export is attempted, output.glb is
\* not written and main() returns False; a non-empty result carries its
\* first candidate forward.
C13_EmptyResultHalts ==
    /\ meshes = 0 =>
          /\ "ERROR: No mesh generated (empty output)" \in Range(log)
          /\ calls["simplify"] = 0 /\ calls["to_glb"] = 0 /\ calls["export"] = 0
          /\ glbWrites = 0 /\ mesh = "none" /\ picked = 0
          /\ Halted /\ result = "False"
    /\ meshes >= 1 => (picked = 1 /\ mesh # "none")

C13_Witness == meshes = 0 /\ pc = "terminated"

\* C14: in every run that reaches image decoding or model loading both
\* environment toggles are already set, and they are set only when the
\* probing stage has completed successfully, by no other stage.
C14_EnvTogglesBeforeUse ==
    [][ /\ (Rank(pc') \in Rank("decode")..Rank("banner") \/ calls'["from_pretrained"] = 1) => envSet'
        /\ (envSet' /\ ~envSet) => (pc = "setup" /\ probe = "ok") ]_vars

C14_Witness == pc = "load" /\ envSet /\ probe = "ok"

\* C15: at every point before the log file is closed the output written
\* to the console equals the output written to run.log, tracebacks
\* included, in the same order.
C15_ConsoleEqualsLog == logOpen => console = log

C15_Witness == logOpen /\ Traceback \in Range(log) /\ Len(console) > 3

\* C16: once log_file.close() has executed no write or flush is performed
\* on the closed log file through either Tee before the process ends.
C16_NoUseAfterClose == closedOps = 0

\* C17: a run that halts before the export stage leaves output.glb
\* unchanged, neither creating, overwriting nor deleting it, so an
\* output.glb left by an earlier run is still there after a failed run.
C17_GlbUntouchedBeforeExport ==
    [][calls'["export"] = 0 => glb' = glb]_vars

C17_Witness ==
    /\ run = 2 /\ pc = "terminated" /\ result = "False" /\ calls["export"] = 0
    /\ glb.exists /\ glb.run = 1

TerminalLines == {"Task completed successfully (exit 0)",
                  "Task completed with errors (exit 0)",
                  "Task completed with exception (exit 0)"}

\* C18: a run that enters the top-level guarded region logs exactly one
\* terminal outcome line, and it matches the outcome: "successfully" iff
\* main() returned True, "with errors" iff it returned False, "with
\* exception" iff an exception escaped main().
C18_OneMatchingOutcomeLine ==
    IF pc \in {"finally", "exit", "terminated"}
      THEN /\ Cardinality({i \in 1..Len(log) : log[i] \in TerminalLines}) = 1
           /\ "Task completed successfully (exit 0)" \in Range(log) <=> result = "True"
           /\ "Task completed with errors (exit 0)" \in Range(log) <=> result = "False"
           /\ "Task completed with exception (exit 0)" \in Range(log) <=> result = "exc"
      ELSE Range(log) \cap TerminalLines = {}

C18_Witness ==
    pc = "terminated" /\ result = "exc" /\ "Task completed with exception (exit 0)" \in Range(log)

====
